---- MODULE Spec2Model ----
(***************************************************************************)
(* Model of scripts/ai-pipeline/run-pipeline.sh: the pipeline orchestrator *)
(* (startup, run_step, run_iteration, check_stopping_conditions, the main  *)
(* loop), run by bash under `set -e`; of the six step scripts it calls; of *)
(* scripts/branch-automation.sh and scripts/ai-iterative-branch.sh; of the *)
(* commit-msg hook scripts/setup-repo.sh installs; of two orchestrators    *)
(* sharing a workspace; and of the Button component.                       *)
(***************************************************************************)
EXTENDS Integers, Sequences, FiniteSets, TLC

VARIABLES
    config,             \* config/ai-pipeline.json: min_steps, max_steps, steps
    MAX_ITERATIONS,     \* --max-iterations=N, default 5
    CURRENT_ITERATION,  \* loop counter of the main loop
    pc,                 \* position of the shell in the script
    results_file,       \* .ai-pipeline-results.json: the list .iterations
    iteration_results,  \* run_iteration's local iteration_results
    steps_to_run,       \* run_iteration's local steps_to_run
    pending,            \* step ids the current for loop still has to visit
    status_files,       \* iteration-<n>/step-<id>/status.json, per step id
    exit_status,        \* exit status of the shell, NoExit while it runs
    log,                \* history: one entry per run_step call of this run
    environment,        \* what the orchestrator finds at startup: jq, the config file
    invocation,         \* one invocation of a step script: inputs and outcome
    repo,               \* the git repository the branch scripts and the hooks work on
    runs,               \* two orchestrators and the results file they share
    button              \* a rendered Button: its props and the clicks it took

vars == <<config, MAX_ITERATIONS, CURRENT_ITERATION, pc, results_file,
          iteration_results, steps_to_run, pending, status_files,
          exit_status, log, environment, invocation, repo, runs, button>>

\* What the actions of the orchestrator leave alone.
OutsideRun == <<environment, invocation, repo, runs, button>>

----------------------------------------------------------------------------
(* Bounds of the model *)

MaxStepCount == 3       \* at most this many steps in the configuration
MaxIterArg == 1         \* --max-iterations is 0, MaxIterArg or left at the default
MaxExitCode == 1        \* a step script exits with a status in 0..MaxExitCode
StepTimeout == 1        \* the timeout_seconds the configuration gives each step

(* Program constants *)

DefaultMaxIterations == 5

\* Mutant: the script runs without set -e.
ErrExitOff == FALSE

ErrExit == TRUE

NoExit == -1
NoFile == [absent |-> TRUE]
NoIteration == [absent |-> TRUE]

----------------------------------------------------------------------------
(* The configuration *)

StepIds(cfg) == 1..Len(cfg.steps)

StepDefinitions(n) ==
    [1..n -> [required : BOOLEAN, timeout_seconds : {StepTimeout}]]

\* What the environment decides when a step is due: whether the script file
\* exists and, if it does, the script's exit status and the seconds it takes
\* (its timeout_seconds exactly, or one second more).
Outcomes(cfg, step_id) ==
    [script_exists : {TRUE}, exit_code : 0..MaxExitCode,
     elapsed : { cfg.steps[step_id].timeout_seconds,
                 cfg.steps[step_id].timeout_seconds + 1 }]
    \cup {[script_exists |-> FALSE, exit_code |-> 0, elapsed |-> 0]}

Configs ==
    UNION { [min_steps : 0..n, max_steps : 0..(n + 1), steps : StepDefinitions(n)]
            : n \in 1..MaxStepCount }

ValidConfig(cfg) == cfg.min_steps <= cfg.max_steps

RECURSIVE SelectIds(_, _, _)
SelectIds(cfg, flag, i) ==
    IF i > Len(cfg.steps) THEN <<>>
    ELSE (IF cfg.steps[i].required = flag THEN <<i>> ELSE <<>>)
         \o SelectIds(cfg, flag, i + 1)

\* Mutant: the filter of the required loop selects the wrong flag.
RequiredStepsWrongFilter(cfg) == SelectIds(cfg, FALSE, 1)

RequiredSteps(cfg) == SelectIds(cfg, TRUE, 1)
OptionalSteps(cfg) == SelectIds(cfg, FALSE, 1)

Range(s) == { s[i] : i \in DOMAIN s }

Min(a, b) == IF a < b THEN a ELSE b

----------------------------------------------------------------------------
(* run_step *)

StatusJson(step_id, exit_code, duration) ==
    [step_id |-> step_id, exit_code |-> exit_code,
     duration_seconds |-> duration, timestamp |-> "this_run"]

StaleStatusJson(step_id) ==
    [step_id |-> step_id, exit_code |-> 0,
     duration_seconds |-> 0, timestamp |-> "previous_run"]

\* What one call of run_step does, given whether the script file exists, the
\* exit status of the script and the seconds it took.
\*   kind    "return": run_step returned ret to its caller;
\*           "errexit": the script's nonzero status ended the shell (set -e)
\*   wrote   whether status.json was written, and status, its content
\*   result  how run_step classified the step
run_step(cfg, step_id, script_exists, exit_code, elapsed) ==
    LET required == cfg.steps[step_id].required
        status == StatusJson(step_id, exit_code, elapsed)
    IN
    IF ~script_exists
    THEN [kind |-> "return", ret |-> IF required THEN 1 ELSE 0,
          wrote |-> FALSE, status |-> status,
          result |-> IF required THEN "failed" ELSE "skipped"]
    ELSE IF exit_code /= 0 /\ ErrExit
    THEN [kind |-> "errexit", ret |-> exit_code,
          wrote |-> FALSE, status |-> status, result |-> "errexit"]
    ELSE IF exit_code = 0
    THEN [kind |-> "return", ret |-> 0,
          wrote |-> TRUE, status |-> status, result |-> "passed"]
    ELSE [kind |-> "return", ret |-> IF required THEN 1 ELSE 0,
          wrote |-> TRUE, status |-> status, result |-> "failed"]

\* The shell ends at a call of run_step: either inside it, or because the
\* call itself returned nonzero under set -e.
ShellExits(r) == r.kind = "errexit" \/ (ErrExit /\ r.ret /= 0)

LogEntry(step_id, iteration, o, r) ==
    [step_id |-> step_id, iteration |-> iteration, ran |-> o.script_exists,
     exit_code |-> o.exit_code, elapsed |-> o.elapsed, result |-> r.result]

\* cat status.json after run_step: the file run_step wrote, else whatever an
\* earlier run left at that path (stale), if anything.
ReadStatusFile(files, step_id, stale) ==
    IF files[step_id] /= NoFile THEN files[step_id]
    ELSE IF stale THEN StaleStatusJson(step_id)
    ELSE NoFile

\* Whether the caller of run_step goes on to read a status.json that this
\* call did not write.
ReadsOldFile(r) == ~r.wrote /\ ~ShellExits(r)

----------------------------------------------------------------------------
(* The run record *)

NoStep == 0

\* Mutant: the record numbers the iterations from 1.
NewIterationResultsFromOne(iteration, n) ==
    [iteration |-> iteration + 1, timestamp |-> "this_run", steps_run |-> n,
     steps |-> <<>>, status |-> "null", failed_step |-> NoStep]

NewIterationResults(iteration, n) ==
    [iteration |-> iteration, timestamp |-> "this_run", steps_run |-> n,
     steps |-> <<>>, status |-> "null", failed_step |-> NoStep]

AddStepResult(it, file) ==
    IF file = NoFile THEN it
    ELSE [it EXCEPT !.steps = Append(@, file)]

AppendIteration(iterations, it) == Append(iterations, it)

HasWarnings(step_result) ==
    "warnings" \in DOMAIN step_result /\ step_result.warnings > 0

\* Mutant: the test for warnings is inverted (-n for -z).
check_stopping_conditions_inverted(iteration, max_iterations, iterations) ==
    IF iteration >= max_iterations THEN 0
    ELSE LET last == IF iteration + 1 \in DOMAIN iterations
                     THEN iterations[iteration + 1] ELSE NoIteration
         IN IF last /= NoIteration /\ last.status = "success"
               /\ ~(\A i \in DOMAIN last.steps : ~HasWarnings(last.steps[i]))
            THEN 0
            ELSE 1

check_stopping_conditions(iteration, max_iterations, iterations) ==
    IF iteration >= max_iterations THEN 0
    ELSE LET last == IF iteration + 1 \in DOMAIN iterations
                     THEN iterations[iteration + 1] ELSE NoIteration
         IN IF last /= NoIteration /\ last.status = "success"
               /\ \A i \in DOMAIN last.steps : ~HasWarnings(last.steps[i])
            THEN 0
            ELSE 1

----------------------------------------------------------------------------
(* Startup: lines 20-24 (jq), 82-85 (the configuration file exists), *)
(* 88-90 (the configuration is loaded), 99 (the results file is reset) *)

JqParseError == 2

\* The configuration file is missing, is not JSON ("unparseable"), is JSON
\* without the .pipeline keys ("incomplete"), or holds a configuration.
Environments ==
    [jq_installed : BOOLEAN,
     config_file : {"missing", "unparseable", "incomplete", "valid"}]

\* What jq reads from a file without .pipeline: null for min_steps and
\* max_steps, which bash arithmetic evaluates to 0, and no steps.
NullConfig == [min_steps |-> 0, max_steps |-> 0, steps |-> <<>>]

\* A record an earlier run left in .ai-pipeline-results.json.
StaleIteration ==
    [iteration |-> 0, timestamp |-> "previous_run", steps_run |-> 0,
     steps |-> <<>>, status |-> "success", failed_step |-> NoStep]

\* The exit status of the startup code, 0 when it reaches line 99.
startup(env) ==
    IF ~env.jq_installed THEN 1
    ELSE IF env.config_file = "missing" THEN 1
    ELSE IF env.config_file = "unparseable" /\ ErrExit THEN JqParseError
    ELSE 0

\* jq is not installed, or the configuration file is missing or is not JSON.
StartupFails ==
    \/ ~environment.jq_installed
    \/ environment.config_file \in {"missing", "unparseable"}

IdleInvocation == [pc |-> "idle"]
IdleRepo == [pc |-> "idle"]
IdleRuns == [pc |-> "idle"]
IdleButton == [pc |-> "idle"]

Init ==
    /\ environment \in Environments
    /\ config \in IF environment.config_file = "valid"
                  THEN { c \in Configs : ValidConfig(c) }
                  ELSE {NullConfig}
    /\ MAX_ITERATIONS \in {0, MaxIterArg, DefaultMaxIterations}
    /\ CURRENT_ITERATION = 0
    /\ pc = "startup"
    /\ results_file \in {<<>>, <<StaleIteration>>}
    /\ iteration_results = NoIteration
    /\ steps_to_run = 0
    /\ pending = <<>>
    /\ status_files = [s \in StepIds(config) |-> NoFile]
    /\ exit_status = NoExit
    /\ log = <<>>
    /\ invocation = IdleInvocation
    /\ repo = IdleRepo
    /\ runs = IdleRuns
    /\ button = IdleButton

\* Lines 20-99: the checks, the loading of the configuration and the reset
\* of the results file.
Startup ==
    /\ pc = "startup"
    /\ IF startup(environment) /= 0
       THEN /\ pc' = "exited"
            /\ exit_status' = startup(environment)
            /\ UNCHANGED results_file
       ELSE /\ pc' = "loop"
            /\ results_file' = <<>>
            /\ UNCHANGED exit_status
    /\ UNCHANGED <<config, MAX_ITERATIONS, CURRENT_ITERATION, iteration_results,
                   steps_to_run, pending, status_files, log>>
    /\ UNCHANGED OutsideRun

----------------------------------------------------------------------------
(* run_iteration *)

\* Mutant: shuf -r, the lines are drawn with repetition.
ShuffledWithRepetition(ids, k) ==
    LET n == Min(k, Len(ids))
    IN [1..n -> Range(ids)]

\* shuf | head -n k: k distinct lines of the input, in any order.
Shuffled(ids, k) ==
    LET n == Min(k, Len(ids))
    IN { s \in [1..n -> Range(ids)] : \A i, j \in 1..n : i /= j => s[i] /= s[j] }

\* Mutant: the random count is one too high.
StepsToRunOffByOne(cfg, random) ==
    Min((random % (cfg.max_steps - cfg.min_steps + 1)) + cfg.min_steps + 1,
        Len(cfg.steps))

StepsToRun(cfg, random) ==
    Min((random % (cfg.max_steps - cfg.min_steps + 1)) + cfg.min_steps,
        Len(cfg.steps))

\* Lines 280-281, 177-202: the loop test succeeds and run_iteration starts.
StartIteration ==
    /\ pc = "loop"
    /\ CURRENT_ITERATION < MAX_ITERATIONS
    /\ \E random \in 0..(config.max_steps - config.min_steps) :
          /\ steps_to_run' = StepsToRun(config, random)
          /\ iteration_results' =
                NewIterationResults(CURRENT_ITERATION, StepsToRun(config, random))
    /\ status_files' = [s \in StepIds(config) |-> NoFile]
    /\ pending' = RequiredSteps(config)
    /\ pc' = "required"
    /\ UNCHANGED <<config, MAX_ITERATIONS, CURRENT_ITERATION, results_file,
                   exit_status, log>>
    /\ UNCHANGED OutsideRun

\* Lines 203-223: one pass of the loop over the required steps.
RequiredStep ==
    /\ pc = "required"
    /\ pending /= <<>>
    /\ \E o \in Outcomes(config, Head(pending)), stale \in BOOLEAN :
        LET step_id == Head(pending)
            r == run_step(config, step_id, o.script_exists, o.exit_code, o.elapsed)
            files == IF r.wrote THEN [status_files EXCEPT ![step_id] = r.status]
                     ELSE status_files
            added == AddStepResult(iteration_results,
                                   ReadStatusFile(files, step_id, stale))
            failed == [added EXCEPT !.status = "failed", !.failed_step = step_id]
        IN
        /\ stale => ReadsOldFile(r)
        /\ log' = Append(log, LogEntry(step_id, CURRENT_ITERATION, o, r))
        /\ status_files' = files
        /\ IF ShellExits(r)
           THEN /\ pc' = "exited"
                /\ exit_status' = r.ret
                /\ UNCHANGED <<iteration_results, results_file, pending>>
           ELSE IF r.ret /= 0
           THEN /\ iteration_results' = failed
                /\ results_file' = AppendIteration(results_file, failed)
                /\ pc' = "exited"
                /\ exit_status' = 1
                /\ UNCHANGED pending
           ELSE /\ iteration_results' = added
                /\ pending' = Tail(pending)
                /\ UNCHANGED <<pc, exit_status, results_file>>
    /\ UNCHANGED <<config, MAX_ITERATIONS, CURRENT_ITERATION, steps_to_run>>
    /\ UNCHANGED OutsideRun

\* Lines 225-232: the required steps are done; choose the optional steps.
SelectOptional ==
    /\ pc = "required"
    /\ pending = <<>>
    /\ LET required_count == Len(RequiredSteps(config))
           optional_count == steps_to_run - required_count
       IN IF optional_count > 0
          THEN pending' \in Shuffled(OptionalSteps(config), optional_count)
          ELSE pending' = <<>>
    /\ pc' = "optional"
    /\ UNCHANGED <<config, MAX_ITERATIONS, CURRENT_ITERATION, results_file,
                   iteration_results, steps_to_run, status_files,
                   exit_status, log>>
    /\ UNCHANGED OutsideRun

\* Lines 234-240: one pass of the loop over the chosen optional steps.
OptionalStep ==
    /\ pc = "optional"
    /\ pending /= <<>>
    /\ \E o \in Outcomes(config, Head(pending)), stale \in BOOLEAN :
        LET step_id == Head(pending)
            r == run_step(config, step_id, o.script_exists, o.exit_code, o.elapsed)
            files == IF r.wrote THEN [status_files EXCEPT ![step_id] = r.status]
                     ELSE status_files
        IN
        /\ stale => ReadsOldFile(r)
        /\ log' = Append(log, LogEntry(step_id, CURRENT_ITERATION, o, r))
        /\ status_files' = files
        /\ IF ShellExits(r)
           THEN /\ pc' = "exited"
                /\ exit_status' = r.ret
                /\ UNCHANGED <<iteration_results, pending>>
           ELSE /\ iteration_results' =
                     AddStepResult(iteration_results,
                                   ReadStatusFile(files, step_id, stale))
                /\ pending' = Tail(pending)
                /\ UNCHANGED <<pc, exit_status>>
    /\ UNCHANGED <<config, MAX_ITERATIONS, CURRENT_ITERATION, results_file,
                   steps_to_run>>
    /\ UNCHANGED OutsideRun

\* Lines 243-251: the iteration succeeded and is appended to the results file.
FinishIteration ==
    /\ pc = "optional"
    /\ pending = <<>>
    /\ LET done == [iteration_results EXCEPT !.status = "success"]
       IN /\ iteration_results' = done
          /\ results_file' = AppendIteration(results_file, done)
    /\ pc' = "check"
    /\ UNCHANGED <<config, MAX_ITERATIONS, CURRENT_ITERATION, steps_to_run,
                   pending, status_files, exit_status, log>>
    /\ UNCHANGED OutsideRun

----------------------------------------------------------------------------
(* The main loop *)

\* Mutant: the test of line 291 is inverted, the loop goes on when the
\* stopping condition holds.
CheckStopContinues ==
    /\ pc = "check"
    /\ LET c == check_stopping_conditions(CURRENT_ITERATION, MAX_ITERATIONS,
                                          results_file)
       IN IF c /= 0
          THEN /\ pc' = "complete"
               /\ UNCHANGED <<CURRENT_ITERATION, exit_status>>
          ELSE /\ CURRENT_ITERATION' = CURRENT_ITERATION + 1
               /\ pc' = "loop"
               /\ UNCHANGED exit_status
    /\ UNCHANGED <<config, MAX_ITERATIONS, results_file, iteration_results,
                   steps_to_run, pending, status_files, log>>
    /\ UNCHANGED OutsideRun

\* Lines 289-296: the stop/continue decision after a successful iteration.
CheckStop ==
    /\ pc = "check"
    /\ LET c == check_stopping_conditions(CURRENT_ITERATION, MAX_ITERATIONS,
                                          results_file)
       IN IF c = 0
          THEN /\ pc' = "complete"
               /\ UNCHANGED <<CURRENT_ITERATION, exit_status>>
          ELSE IF ErrExit
          THEN /\ pc' = "exited"
               /\ exit_status' = c
               /\ UNCHANGED CURRENT_ITERATION
          ELSE /\ CURRENT_ITERATION' = CURRENT_ITERATION + 1
               /\ pc' = "loop"
               /\ UNCHANGED exit_status
    /\ UNCHANGED <<config, MAX_ITERATIONS, results_file, iteration_results,
                   steps_to_run, pending, status_files, log>>
    /\ UNCHANGED OutsideRun

\* Line 280: the loop test fails.
LoopExit ==
    /\ pc = "loop"
    /\ ~(CURRENT_ITERATION < MAX_ITERATIONS)
    /\ pc' = "complete"
    /\ UNCHANGED <<config, MAX_ITERATIONS, CURRENT_ITERATION, results_file,
                   iteration_results, steps_to_run, pending, status_files,
                   exit_status, log>>
    /\ UNCHANGED OutsideRun

\* Mutant: the summary's jq output is redirected into the results file.
CompleteClobbersResults ==
    /\ pc = "complete"
    /\ pc' = "exited"
    /\ exit_status' = 0
    /\ results_file' = <<>>
    /\ UNCHANGED <<config, MAX_ITERATIONS, CURRENT_ITERATION,
                   iteration_results, steps_to_run, pending, status_files, log>>
    /\ UNCHANGED OutsideRun

\* Lines 298-309: the completion message, the summary and exit 0.
Complete ==
    /\ pc = "complete"
    /\ pc' = "exited"
    /\ exit_status' = 0
    /\ UNCHANGED <<config, MAX_ITERATIONS, CURRENT_ITERATION, results_file,
                   iteration_results, steps_to_run, pending, status_files, log>>
    /\ UNCHANGED OutsideRun

Next ==
    \/ Startup
    \/ StartIteration
    \/ RequiredStep
    \/ SelectOptional
    \/ OptionalStep
    \/ FinishIteration
    \/ CheckStop
    \/ LoopExit
    \/ Complete

Spec == Init /\ [][Next]_vars

TypeOK ==
    /\ pc \in {"startup", "loop", "required", "optional", "check", "complete",
              "exited"}
    /\ exit_status \in {NoExit, JqParseError} \cup (0..MaxExitCode)
    /\ (pc = "exited") <=> (exit_status /= NoExit)

----------------------------------------------------------------------------
(* The step scripts.  Each is called by run_step as                        *)
(*   <script> --iteration=N --branch=B --feature=F --workspace=W           *)
(* and works in W/.ai-pipeline-iterations/iteration-N/step-<its own name>. *)

MaxIteration == 3       \* a step script is called with --iteration in 0..MaxIteration
MaxChanged == 1         \* git diff main..BRANCH lists at most this many files

RunVars == <<config, MAX_ITERATIONS, CURRENT_ITERATION, pc, results_file,
             iteration_results, steps_to_run, pending, status_files,
             exit_status, log>>

\* No orchestrator is running.
DormantRun ==
    /\ environment = [jq_installed |-> TRUE, config_file |-> "valid"]
    /\ config = NullConfig
    /\ MAX_ITERATIONS = 0
    /\ CURRENT_ITERATION = 0
    /\ pc = "idle"
    /\ results_file = <<>>
    /\ iteration_results = NoIteration
    /\ steps_to_run = 0
    /\ pending = <<>>
    /\ status_files = <<>>
    /\ exit_status = NoExit
    /\ log = <<>>

StepScripts ==
    {"context_validation", "syntax_check", "code_style", "breaking_changes",
     "security_scan", "human_review"}

\* A file of the workspace: iteration-<iteration>/step-<step>/<file>.
Path(iteration, step, file) ==
    [iteration |-> iteration, step |-> step, file |-> file]

In(iteration, step, files) == { Path(iteration, step, f) : f \in files }

Max(a, b) == IF a > b THEN a ELSE b

\* The outcome of a script: its exit status, the files it wrote, the number
\* of changed files it reports, and the figure its verdict rests on.
Outcome(exit_code, written, reported, detail) ==
    [exit_code |-> exit_code, written |-> written, reported |-> reported,
     detail |-> detail]

\* The context validation script: it has no early exit and always exits 0.
context_validation(iteration, branch_exists, changed, score_low) ==
    Outcome(0,
            In(iteration, "context_validation",
               {"changed_files.txt", "ai_understanding.json",
                "validation_result.json", "summary.txt"}),
            IF branch_exists THEN changed ELSE 0,
            IF score_low THEN 1 ELSE 0)

\* UNDERSTANDING_SCORE is below 60 only in iteration 0 (50 + RANDOM % 30).
ScoreLow(iteration) == IF iteration = 0 THEN BOOLEAN ELSE {FALSE}

\* check_file_syntax: max_errors of one file.
max_errors(iteration) ==
    IF iteration > 0 THEN Max(10 - iteration * 2, 0) ELSE 10

\* Mutant: a missing branch is an error.
syntax_check_branch_required(iteration, branch_exists, changed, total_errors) ==
    IF ~branch_exists
    THEN Outcome(1, In(iteration, "syntax_check", {"changed_files.txt"}), 0, 0)
    ELSE IF changed = 0
    THEN Outcome(0, In(iteration, "syntax_check", {"changed_files.txt"}), 0, 0)
    ELSE Outcome(IF total_errors > 5 THEN 1 ELSE 0,
                 In(iteration, "syntax_check",
                    {"changed_files.txt", "syntax_results.json", "summary.txt"}),
                 changed, total_errors)

\* syntax-check.sh
syntax_check(iteration, branch_exists, changed, total_errors) ==
    IF ~branch_exists
    THEN Outcome(0, In(iteration, "syntax_check", {"changed_files.txt"}), 0, 0)
    ELSE IF changed = 0
    THEN Outcome(0, In(iteration, "syntax_check", {"changed_files.txt"}), 0, 0)
    ELSE Outcome(IF total_errors > 5 THEN 1 ELSE 0,
                 In(iteration, "syntax_check",
                    {"changed_files.txt", "syntax_results.json", "summary.txt"}),
                 changed, total_errors)

\* Mutant: the code style script writes no summary.txt.
code_style_no_summary(iteration, branch_exists, changed, total_issues) ==
    IF ~branch_exists \/ changed = 0
    THEN Outcome(0, In(iteration, "code_style", {"changed_files.txt"}), 0, 0)
    ELSE Outcome(0,
                 In(iteration, "code_style",
                    {"changed_files.txt", "style_results.json", "style_report.md"}),
                 changed, total_issues)

\* The code style script: after its early exits it always exits 0.
code_style(iteration, branch_exists, changed, total_issues) ==
    IF ~branch_exists \/ changed = 0
    THEN Outcome(0, In(iteration, "code_style", {"changed_files.txt"}), 0, 0)
    ELSE Outcome(0,
                 In(iteration, "code_style",
                    {"changed_files.txt", "style_results.json", "summary.txt",
                     "style_report.md"}),
                 changed, total_issues)

\* detect-breaking-changes.sh: TEST_FAILURES by iteration.
TestFailures(iteration) ==
    IF iteration = 0 THEN 5..14
    ELSE IF iteration < 3 THEN 1..5
    ELSE 0..1

\* API_BREAKING_CHANGES (lines 166-176) and DB_BREAKING_CHANGES (224-234).
BreakingChanges(iteration, files, most) ==
    IF files = 0 THEN {0}
    ELSE IF iteration = 0 THEN 1..most
    ELSE IF iteration < 3 THEN 0..1
    ELSE {0}

\* detect-breaking-changes.sh
breaking_changes(iteration, branch_exists, changed, tests, api, db) ==
    LET test_failures == tests
        api_breaking == api
        db_breaking == db
    IN
    IF ~branch_exists \/ changed = 0
    THEN Outcome(0, In(iteration, "breaking_changes", {"changed_files.txt"}), 0, 0)
    ELSE Outcome(IF api_breaking + db_breaking > 2 THEN 1
                 ELSE IF test_failures > 5 THEN 1
                 ELSE 0,
                 In(iteration, "breaking_changes",
                    {"changed_files.txt", "files_by_category", "test_results.json",
                     "api_changes.json", "db_changes.json", "summary.txt"}),
                 changed, api_breaking + db_breaking)

\* The security scan: MAX_VULNS and SEVERITY_INDEX by iteration.
MAX_VULNS(iteration) ==
    IF iteration > 0 THEN Max(10 - iteration * 2, 1) ELSE 10

\* Mutant: the middle iterations draw RANDOM % 5, without the + 1.
SeverityIndexesUnshifted(iteration) ==
    IF iteration = 0 THEN 0..4
    ELSE IF iteration < 3 THEN 0..4
    ELSE 2..6

SeverityIndexes(iteration) ==
    IF iteration = 0 THEN 0..4
    ELSE IF iteration < 3 THEN 1..5
    ELSE 2..6

Severity(index) ==
    IF index = 0 THEN "critical"
    ELSE IF index = 1 THEN "high"
    ELSE IF index \in {2, 3} THEN "moderate"
    ELSE IF index \in {4, 5, 6} THEN "low"
    ELSE "informational"

Count(severities, severity) ==
    Cardinality({ i \in DOMAIN severities : Severity(severities[i]) = severity })

\* The security scan script; severities holds the SEVERITY_INDEX drawn for
\* each vulnerability.
security_scan(iteration, branch_exists, changed, severities) ==
    IF ~branch_exists \/ changed = 0
    THEN Outcome(0, In(iteration, "security_scan", {"changed_files.txt"}), 0, 0)
    ELSE Outcome(IF Count(severities, "critical") > 0 /\ iteration > 0 THEN 1 ELSE 0,
                 In(iteration, "security_scan",
                    {"changed_files.txt", "security_results.json", "summary.txt",
                     "security_report.md"}),
                 changed, Count(severities, "critical"))

\* Mutant: review_summary.md is written through STEP_DIR, which the loop over
\* PREV_STEPS left at step-ai_review.
human_review_step_dir(iteration, branch_exists, changed, approved) ==
    Outcome(0,
            In(iteration, "human_review", {"review_result.json", "summary.txt"})
            \cup In(iteration, "ai_review", {"review_summary.md"}),
            IF branch_exists THEN changed ELSE 0,
            IF approved THEN 1 ELSE 0)

\* request-human-review.sh: it reads the summary.txt of the other steps and
\* writes in its own directory; it always exits 0.
human_review(iteration, branch_exists, changed, approved) ==
    Outcome(0,
            In(iteration, "human_review",
               {"review_summary.md", "review_result.json", "summary.txt"}
               \cup (IF branch_exists THEN {"diff_stats.txt"} ELSE {})),
            IF branch_exists THEN changed ELSE 0,
            IF approved THEN 1 ELSE 0)

\* The calls run_step can make: git diff lists files only of a branch that
\* exists.
Invocations ==
    { i \in [pc : {"ready"}, iteration : 0..MaxIteration,
             branch_exists : BOOLEAN, changed : 0..MaxChanged,
             script : {"none"}, outcome : {Outcome(NoExit, {}, 0, 0)}] :
        ~i.branch_exists => i.changed = 0 }

InitSteps ==
    /\ DormantRun
    /\ invocation \in Invocations
    /\ repo = IdleRepo
    /\ runs = IdleRuns
    /\ button = IdleButton

OutsideInvocation == <<RunVars, environment, repo, runs, button>>

\* The invocation once the script has exited.
Exited(script, outcome) ==
    [invocation EXCEPT !.pc = "done", !.script = script, !.outcome = outcome]

ContextValidation ==
    /\ invocation.pc = "ready"
    /\ \E score_low \in ScoreLow(invocation.iteration) :
          invocation' =
              Exited("context_validation",
                     context_validation(invocation.iteration,
                                        invocation.branch_exists,
                                        invocation.changed, score_low))
    /\ UNCHANGED OutsideInvocation

SyntaxCheck ==
    /\ invocation.pc = "ready"
    /\ \E total_errors \in
              0..(invocation.changed * max_errors(invocation.iteration)) :
          invocation' =
              Exited("syntax_check",
                     syntax_check(invocation.iteration, invocation.branch_exists,
                                  invocation.changed, total_errors))
    /\ UNCHANGED OutsideInvocation

CodeStyle ==
    /\ invocation.pc = "ready"
    /\ \E total_issues \in 0..invocation.changed :
          invocation' =
              Exited("code_style",
                     code_style(invocation.iteration, invocation.branch_exists,
                                invocation.changed, total_issues))
    /\ UNCHANGED OutsideInvocation

BreakingChangesCheck ==
    /\ invocation.pc = "ready"
    /\ \E api_files, db_files \in 0..invocation.changed :
          /\ api_files + db_files <= invocation.changed
          /\ \E test_failures \in TestFailures(invocation.iteration),
                api_breaking \in BreakingChanges(invocation.iteration, api_files, 3),
                db_breaking \in BreakingChanges(invocation.iteration, db_files, 2) :
                invocation' =
                    Exited("breaking_changes",
                           breaking_changes(invocation.iteration,
                                            invocation.branch_exists,
                                            invocation.changed, test_failures,
                                            api_breaking, db_breaking))
    /\ UNCHANGED OutsideInvocation

SecurityScan ==
    /\ invocation.pc = "ready"
    /\ \E vuln_count \in
              0..Min(MAX_VULNS(invocation.iteration), invocation.changed) :
          \E severities \in
                  [1..vuln_count -> SeverityIndexes(invocation.iteration)] :
              invocation' =
                  Exited("security_scan",
                         security_scan(invocation.iteration,
                                       invocation.branch_exists,
                                       invocation.changed, severities))
    /\ UNCHANGED OutsideInvocation

HumanReview ==
    /\ invocation.pc = "ready"
    /\ \E approved \in BOOLEAN :
          invocation' =
              Exited("human_review",
                     human_review(invocation.iteration, invocation.branch_exists,
                                  invocation.changed, approved))
    /\ UNCHANGED OutsideInvocation

NextSteps ==
    \/ ContextValidation
    \/ SyntaxCheck
    \/ CodeStyle
    \/ BreakingChangesCheck
    \/ SecurityScan
    \/ HumanReview

SpecSteps == InitSteps /\ [][NextSteps]_vars

----------------------------------------------------------------------------
(* scripts/branch-automation.sh <feature-name> [promote-to-review |        *)
(* promote-to-prod], run by bash under `set -e`.  A branch is the set of   *)
(* commits reachable from it; the empty set stands for a branch that does  *)
(* not exist.  main holds commit 0.                                        *)

MaxCommits == 4         \* commits 1..MaxCommits can be made on top of main

Branches == {"main", "gen", "review", "prod"}

NoCommits == {}

branch_exists(s, b) == s.local[b] /= NoCommits

\* What the environment decides during one invocation: the answer typed at
\* the force-update prompt and which kind of command, if any, fails (the
\* script ends at the first command that fails): a git checkout of main, of
\* another branch, the pull, the write of the file of the initial commit
\* (docs/features may not exist), the commit, the merge, the push.
GitOutcomes ==
    [fails : {"none", "checkout_main", "checkout", "pull", "write", "commit",
              "merge", "push"},
     FORCE_UPDATE : {"y", "n"}]

Ended(s, status) ==
    [local |-> s.local, remote |-> s.remote, current |-> s.current,
     next |-> s.next, exit_status |-> status]

\* git checkout b
Checkout(s, b) == [s EXCEPT !.current = b]

\* git checkout -b b: the new branch starts at the current branch.
CheckoutNew(s, b) ==
    [s EXCEPT !.local[b] = s.local[s.current], !.current = b]

\* git commit on the current branch
Commit(s) ==
    [s EXCEPT !.local[s.current] = @ \cup {s.next}, !.next = @ + 1]

\* git merge -X theirs from: into the current branch; a fast-forward when the
\* current branch is behind, nothing when it is ahead, a merge commit else.
Merge(s, from) ==
    IF s.local[s.current] \subseteq s.local[from]
    THEN [s EXCEPT !.local[s.current] = s.local[from]]
    ELSE IF s.local[from] \subseteq s.local[s.current]
    THEN s
    ELSE [s EXCEPT !.local[s.current] = @ \cup s.local[from] \cup {s.next},
                   !.next = @ + 1]

\* git push -u origin b, then exit 0; under set -e a failed push ends the
\* script with a nonzero status.
PushAndExit(s, b, env) ==
    IF env.fails = "push" THEN Ended(s, 1)
    ELSE Ended([s EXCEPT !.remote[b] = s.local[b]], 0)

\* Lines 75-93: the ai-gen branch does not exist.
create_ai_gen(s, env) ==
    LET created == CheckoutNew(s, "gen")
    IN IF env.fails = "write" THEN Ended(created, 1)
       ELSE IF env.fails = "commit" THEN Ended(created, 1)
       ELSE PushAndExit(Commit(created), "gen", env)

\* Mutant: the exit 1 of line 114 is missing, the answer is ignored.
promote_to_review_whatever_answer(s, env) ==
    IF s.current /= "gen" THEN Ended(s, 1)
    ELSE IF branch_exists(s, "review")
    THEN IF env.fails = "checkout" THEN Ended(s, 1)
         ELSE IF env.fails = "merge" THEN Ended(Checkout(s, "review"), 1)
         ELSE PushAndExit(Merge(Checkout(s, "review"), "gen"), "review", env)
    ELSE PushAndExit(CheckoutNew(s, "review"), "review", env)

\* Lines 97-131
promote_to_review(s, env) ==
    IF s.current /= "gen" THEN Ended(s, 1)
    ELSE IF branch_exists(s, "review")
    THEN IF env.FORCE_UPDATE /= "y" THEN Ended(s, 1)
         ELSE IF env.fails = "checkout" THEN Ended(s, 1)
         ELSE IF env.fails = "merge" THEN Ended(Checkout(s, "review"), 1)
         ELSE PushAndExit(Merge(Checkout(s, "review"), "gen"), "review", env)
    ELSE PushAndExit(CheckoutNew(s, "review"), "review", env)

\* Mutant: lines 143-147 are missing, the script stays on the ai-gen branch.
promote_to_prod_from_current(s, env) ==
    IF ~branch_exists(s, "review") THEN Ended(s, 1)
    ELSE LET on_review == s
         IN IF branch_exists(on_review, "prod")
            THEN IF env.FORCE_UPDATE /= "y" THEN Ended(on_review, 1)
                 ELSE IF env.fails = "checkout" THEN Ended(on_review, 1)
                 ELSE IF env.fails = "merge" THEN Ended(Checkout(on_review, "prod"), 1)
                 ELSE PushAndExit(Merge(Checkout(on_review, "prod"), "review"),
                                  "prod", env)
            ELSE PushAndExit(CheckoutNew(on_review, "prod"), "prod", env)

\* Lines 134-176
promote_to_prod(s, env) ==
    IF ~branch_exists(s, "review") THEN Ended(s, 1)
    ELSE IF s.current /= "review" /\ env.fails = "checkout" THEN Ended(s, 1)
    ELSE LET on_review == Checkout(s, "review")
         IN IF branch_exists(on_review, "prod")
            THEN IF env.FORCE_UPDATE /= "y" THEN Ended(on_review, 1)
                 ELSE IF env.fails = "checkout" THEN Ended(on_review, 1)
                 ELSE IF env.fails = "merge" THEN Ended(Checkout(on_review, "prod"), 1)
                 ELSE PushAndExit(Merge(Checkout(on_review, "prod"), "review"),
                                  "prod", env)
            ELSE PushAndExit(CheckoutNew(on_review, "prod"), "prod", env)

\* The whole script, called with a feature name and second argument arg.
branch_automation(s, arg, env) ==
    IF s.current /= "main" /\ env.fails = "checkout_main" THEN Ended(s, 1)
    ELSE IF env.fails = "pull" THEN Ended(Checkout(s, "main"), 1)
    ELSE IF ~branch_exists(s, "gen") THEN create_ai_gen(Checkout(s, "main"), env)
    ELSE IF env.fails = "checkout" THEN Ended(Checkout(s, "main"), 1)
    ELSE IF arg = "promote-to-review" THEN promote_to_review(Checkout(s, "gen"), env)
    ELSE IF arg = "promote-to-prod" THEN promote_to_prod(Checkout(s, "gen"), env)
    ELSE Ended(Checkout(s, "gen"), 0)

NoBranches == [b \in Branches |-> IF b = "main" THEN {0} ELSE NoCommits]

InitRepo ==
    /\ DormantRun
    /\ invocation = IdleInvocation
    /\ repo = [pc |-> "shell", local |-> NoBranches, remote |-> NoBranches,
               current |-> "main", next |-> 1,
               last |-> [arg |-> "none", exit_status |-> NoExit,
                         FORCE_UPDATE |-> "none"]]
    /\ runs = IdleRuns
    /\ button = IdleButton

OutsideRepo == <<RunVars, environment, invocation, runs, button>>

\* The repository after one invocation of the script with second argument
\* arg, and the status the invocation ended with.
AfterInvocation(arg, env) ==
    LET end == branch_automation(repo, arg, env)
    IN [repo EXCEPT !.local = end.local, !.remote = end.remote,
                    !.current = end.current, !.next = end.next,
                    !.last = [arg |-> arg, exit_status |-> end.exit_status,
                              FORCE_UPDATE |-> env.FORCE_UPDATE]]

\* branch-automation.sh <feature-name>
CreateOrCheckout ==
    /\ repo.pc = "shell"
    /\ repo.next <= MaxCommits
    /\ \E env \in GitOutcomes : repo' = AfterInvocation("", env)
    /\ UNCHANGED OutsideRepo

\* branch-automation.sh <feature-name> promote-to-review
PromoteToReview ==
    /\ repo.pc = "shell"
    /\ repo.next <= MaxCommits
    /\ \E env \in GitOutcomes : repo' = AfterInvocation("promote-to-review", env)
    /\ UNCHANGED OutsideRepo

\* branch-automation.sh <feature-name> promote-to-prod
PromoteToProd ==
    /\ repo.pc = "shell"
    /\ repo.next <= MaxCommits
    /\ \E env \in GitOutcomes : repo' = AfterInvocation("promote-to-prod", env)
    /\ UNCHANGED OutsideRepo

\* Between invocations: somebody (the AI assistant on ai-gen, a reviewer on
\* ai-review) checks a branch out and commits to it.
Work ==
    /\ repo.pc = "shell"
    /\ repo.next <= MaxCommits
    /\ \E b \in {"gen", "review"} :
        /\ branch_exists(repo, b)
        /\ repo' = [repo EXCEPT !.local[b] = @ \cup {repo.next},
                                !.next = @ + 1, !.current = b,
                                !.last = [arg |-> "none", exit_status |-> NoExit,
                                          FORCE_UPDATE |-> "none"]]
    /\ UNCHANGED OutsideRepo

NextRepo ==
    \/ CreateOrCheckout
    \/ PromoteToReview
    \/ PromoteToProd
    \/ Work

SpecRepo == InitRepo /\ [][NextRepo]_vars

----------------------------------------------------------------------------
(* scripts/ai-iterative-branch.sh <feature-name> <number-of-iterations>    *)
(* [iterate <n> | finalize], run by bash under `set -e`, on a repository   *)
(* with the branches main, ai-gen/<feature>/iteration-<n> and              *)
(* ai-review/<feature>.                                                    *)

MaxPlanned == 2         \* <number-of-iterations> is in 1..MaxPlanned

IterationNames ==
    <<"iteration-0", "iteration-1", "iteration-2", "iteration-3", "iteration-4">>

\* ai-gen/$FEATURE_NAME/iteration-$n
IterationBranch(n) == IterationNames[n + 1]

IterativeBranches ==
    {"main", "review"} \cup { IterationBranch(n) : n \in 0..MaxPlanned }

\* What the environment decides during one invocation: the answers typed at
\* the overwrite prompt of line 39 and at the one of line 125 or 184, and
\* which command, if any, fails: the checkout of main, the pull, the write
\* of the documentation, another checkout, the commit or the push of
\* Step 1, or the commit or the push of the iterate or finalize part.
IterativeOutcomes ==
    [fails : {"none", "checkout_main", "pull", "write", "commit", "push",
              "checkout", "commit_2", "push_2"},
     OVERWRITE_0 : {"y", "n"},
     OVERWRITE : {"y", "n"}]

\* git branch -D b
DeleteBranch(s, b) == [s EXCEPT !.local[b] = NoCommits]

\* git push -u origin b: rejected when the remote branch has commits that
\* the local branch has not.
PushRejected(s, b) == ~(s.remote[b] \subseteq s.local[b])

Push(s, b) == [s EXCEPT !.remote[b] = s.local[b]]

\* Lines 123-149 and 182-212: create branch new from the current branch,
\* commit the updated documentation, push, exit 0.
create_from_current(s, new, env) ==
    IF branch_exists(s, new) /\ env.OVERWRITE /= "y" THEN Ended(s, 1)
    ELSE LET created == CheckoutNew(DeleteBranch(s, new), new)
         IN IF env.fails = "commit_2" THEN Ended(created, 1)
            ELSE IF env.fails = "push_2" \/ PushRejected(Commit(created), new)
            THEN Ended(Commit(created), 1)
            ELSE Ended(Push(Commit(created), new), 0)

\* Lines 97-162
iterate(s, ITERATIONS, ITERATION_NUM, env) ==
    LET PREV_BRANCH == IterationBranch(ITERATION_NUM - 1)
        NEW_BRANCH == IterationBranch(ITERATION_NUM)
    IN IF ITERATION_NUM < 1 \/ ITERATION_NUM > ITERATIONS THEN Ended(s, 1)
       ELSE IF ~branch_exists(s, PREV_BRANCH) THEN Ended(s, 1)
       ELSE IF s.current /= PREV_BRANCH /\ env.fails = "checkout" THEN Ended(s, 1)
       ELSE create_from_current(Checkout(s, PREV_BRANCH), NEW_BRANCH, env)

\* Lines 165-222
finalize(s, ITERATIONS, env) ==
    LET FINAL_BRANCH == IterationBranch(ITERATIONS)
    IN IF ~branch_exists(s, FINAL_BRANCH) THEN Ended(s, 1)
       ELSE IF s.current /= FINAL_BRANCH /\ env.fails = "checkout" THEN Ended(s, 1)
       ELSE create_from_current(Checkout(s, FINAL_BRANCH), "review", env)

\* Lines 35-85, Step 1, with main checked out: the iteration-0 branch is
\* created from main, after it was deleted if it exists and the answer is y.
create_initial(s, env) ==
    IF branch_exists(s, IterationBranch(0)) /\ env.OVERWRITE_0 /= "y"
    THEN Ended(s, 1)
    ELSE LET created == CheckoutNew(DeleteBranch(s, IterationBranch(0)),
                                    IterationBranch(0))
         IN IF env.fails \in {"write", "commit"} THEN Ended(created, 1)
            ELSE IF env.fails = "push"
                    \/ PushRejected(Commit(created), IterationBranch(0))
            THEN Ended(Commit(created), 1)
            ELSE Ended(Push(Commit(created), IterationBranch(0)), 0)

\* The state of the repository in which a script ended.
Repository(end) ==
    [local |-> end.local, remote |-> end.remote, current |-> end.current,
     next |-> end.next]

\* The whole script, called with a feature name, the number of iterations
\* and the third and fourth arguments arg and n.
ai_iterative_branch(s, ITERATIONS, arg, n, env) ==
    IF s.current /= "main" /\ env.fails = "checkout_main" THEN Ended(s, 1)
    ELSE IF env.fails = "pull" THEN Ended(Checkout(s, "main"), 1)
    ELSE LET initial == create_initial(Checkout(s, "main"), env)
         IN IF initial.exit_status /= 0 THEN initial
            ELSE IF arg = "iterate" THEN iterate(Repository(initial), ITERATIONS, n, env)
            ELSE IF arg = "finalize" THEN finalize(Repository(initial), ITERATIONS, env)
            ELSE initial

NoIterativeBranches ==
    [b \in IterativeBranches |-> IF b = "main" THEN {0} ELSE NoCommits]

InitIterative ==
    /\ DormantRun
    /\ invocation = IdleInvocation
    /\ \E ITERATIONS \in 1..MaxPlanned :
          repo = [pc |-> "iterative", ITERATIONS |-> ITERATIONS,
                  local |-> NoIterativeBranches, remote |-> NoIterativeBranches,
                  current |-> "main", next |-> 1,
                  last |-> [arg |-> "none", n |-> 0, exit_status |-> NoExit]]
    /\ runs = IdleRuns
    /\ button = IdleButton

\* The repository after one invocation of the script, and the status the
\* invocation ended with.
AfterIterative(arg, n, env) ==
    LET end == ai_iterative_branch(Repository(repo), repo.ITERATIONS, arg, n, env)
    IN [repo EXCEPT !.local = end.local, !.remote = end.remote,
                    !.current = end.current, !.next = end.next,
                    !.last = [arg |-> arg, n |-> n,
                              exit_status |-> end.exit_status]]

\* ai-iterative-branch.sh <feature-name> <number-of-iterations>
Initialize ==
    /\ repo.pc = "iterative"
    /\ repo.next <= MaxCommits
    /\ \E env \in IterativeOutcomes : repo' = AfterIterative("", 0, env)
    /\ UNCHANGED OutsideRepo

\* ai-iterative-branch.sh <feature-name> <number-of-iterations> iterate <n>
Iterate ==
    /\ repo.pc = "iterative"
    /\ repo.next <= MaxCommits
    /\ \E n \in 0..(MaxPlanned + 1), env \in IterativeOutcomes :
          repo' = AfterIterative("iterate", n, env)
    /\ UNCHANGED OutsideRepo

\* ai-iterative-branch.sh <feature-name> <number-of-iterations> finalize
Finalize ==
    /\ repo.pc = "iterative"
    /\ repo.next <= MaxCommits
    /\ \E env \in IterativeOutcomes : repo' = AfterIterative("finalize", 0, env)
    /\ UNCHANGED OutsideRepo

\* Between invocations: the AI assistant checks an iteration branch out,
\* commits its work to it and pushes it.
Collaborate ==
    /\ repo.pc = "iterative"
    /\ repo.next <= MaxCommits
    /\ \E n \in 0..MaxPlanned, pushed \in BOOLEAN :
        LET b == IterationBranch(n)
            worked == Commit(Checkout(Repository(repo), b))
            after == IF pushed /\ ~PushRejected(worked, b)
                     THEN Push(worked, b) ELSE worked
        IN /\ branch_exists(repo, b)
           /\ repo' = [repo EXCEPT !.local = after.local, !.remote = after.remote,
                                   !.current = b, !.next = after.next,
                                   !.last = [arg |-> "none", n |-> 0,
                                             exit_status |-> NoExit]]
    /\ UNCHANGED OutsideRepo

NextIterative ==
    \/ Initialize
    \/ Iterate
    \/ Finalize
    \/ Collaborate

SpecIterative == InitIterative /\ [][NextIterative]_vars

----------------------------------------------------------------------------
(* scripts/setup-repo.sh: the commit-msg hook it installs (lines 54-71),   *)
(* and the commits that setup-repo.sh, branch-automation.sh and            *)
(* ai-iterative-branch.sh make, each with git commit -m under `set -e`.    *)

\* The scripts that commit and the message each passes to git commit -m.
CommitMessages ==
    [setup_repo |-> "chore: initial repository setup",
     branch_automation |-> "feat: initialize $FEATURE_NAME feature structure",
     iterative_initialize |->
         "feat: initialize $FEATURE_NAME feature structure and documentation",
     iterative_iterate |-> "feat: start iteration $ITERATION_NUM for $FEATURE_NAME",
     iterative_finalize |-> "feat: finalize $FEATURE_NAME after $ITERATIONS iterations"]

\* Line 62 of the hook, [[ $COMMIT_MSG =~ ^(...)?: [A-Z] ]], has an unquoted
\* space in the pattern: bash reports "syntax error in conditional
\* expression" and reads no further.  The status the hook then ends with
\* depends on the bash: the status of the last command it ran, the
\* assignment of line 59, which is 0, or the status 2 of a syntax error.
SyntaxErrorStatuses == {0, 2}

\* The exit status of the commit-msg hook, run by a bash that ends a script
\* at a syntax error with status bash, for the message.
commit_msg(bash, message) == bash

\* git commit -m message: the commit is made unless the hook is installed and
\* ends with a nonzero status.
Attempt(s, script) ==
    [script |-> script, message |-> CommitMessages[script],
     hooked |-> s.hooks_installed,
     accepted |-> ~s.hooks_installed
                    \/ commit_msg(s.bash, CommitMessages[script]) = 0]

\* A script whose only commit is the one of `script`: under set -e it ends
\* with a nonzero status when git commit fails.
CommitOrExit(s, script) ==
    [s EXCEPT !.attempts = Append(@, Attempt(s, script)),
              !.last = [script |-> script,
                        exit_status |-> IF Attempt(s, script).accepted
                                        THEN 0 ELSE 1]]

\* setup-repo.sh: it installs the hooks (lines 31-71), makes the initial
\* commit when there is no main branch (line 182, `|| true`), and calls
\* branch-automation.sh for the demo feature when that has no ai-gen branch
\* (line 193); fresh says whether the repository had no main branch, demo
\* whether the demo branch was missing.
setup_repo(s, fresh, demo) ==
    LET hooked == [s EXCEPT !.hooks_installed = TRUE]
        initial == IF fresh
                   THEN [hooked EXCEPT
                           !.attempts = Append(@, Attempt(hooked, "setup_repo"))]
                   ELSE hooked
        after == IF demo THEN CommitOrExit(initial, "branch_automation")
                 ELSE [initial EXCEPT !.last = [script |-> "setup_repo",
                                               exit_status |-> 0]]
    IN [after EXCEPT !.last.script = "setup_repo"]

InitHooks ==
    /\ DormantRun
    /\ invocation = IdleInvocation
    /\ \E bash \in SyntaxErrorStatuses :
          repo = [pc |-> "hooks", bash |-> bash, hooks_installed |-> FALSE,
                  attempts |-> <<>>,
                  last |-> [script |-> "none", exit_status |-> NoExit]]
    /\ runs = IdleRuns
    /\ button = IdleButton

\* ./scripts/setup-repo.sh
SetupRepo ==
    /\ repo.pc = "hooks"
    /\ Len(repo.attempts) + 2 <= MaxCommits
    /\ \E fresh, demo \in BOOLEAN : repo' = setup_repo(repo, fresh, demo)
    /\ UNCHANGED OutsideRepo

\* branch-automation.sh <feature-name>, for a feature that has no ai-gen
\* branch: the initial commit of line 85.
AutomationCommit ==
    /\ repo.pc = "hooks"
    /\ Len(repo.attempts) < MaxCommits
    /\ repo' = CommitOrExit(repo, "branch_automation")
    /\ UNCHANGED OutsideRepo

\* ai-iterative-branch.sh up to line 94: the commit of line 82.
InitializeCommit ==
    /\ repo.pc = "hooks"
    /\ Len(repo.attempts) < MaxCommits
    /\ repo' = CommitOrExit(repo, "iterative_initialize")
    /\ UNCHANGED OutsideRepo

\* ai-iterative-branch.sh, the iterate part: the commit of line 146.
IterateCommit ==
    /\ repo.pc = "hooks"
    /\ Len(repo.attempts) < MaxCommits
    /\ repo' = CommitOrExit(repo, "iterative_iterate")
    /\ UNCHANGED OutsideRepo

\* ai-iterative-branch.sh, the finalize part: the commit of line 209.
FinalizeCommit ==
    /\ repo.pc = "hooks"
    /\ Len(repo.attempts) < MaxCommits
    /\ repo' = CommitOrExit(repo, "iterative_finalize")
    /\ UNCHANGED OutsideRepo

NextHooks ==
    \/ SetupRepo
    \/ AutomationCommit
    \/ InitializeCommit
    \/ IterateCommit
    \/ FinalizeCommit

SpecHooks == InitHooks /\ [][NextHooks]_vars

----------------------------------------------------------------------------
(* components/Button/Button.tsx, mounted with an onClick handler among the *)
(* props it passes through to <button>.  An optional prop is "undefined",  *)
(* or has a value; booleans are written "true" and "false".                *)

MaxClicks == 2          \* the button is clicked at most this many times

ButtonProps ==
    [variant : {"undefined", "secondary"}, size : {"undefined", "small"},
     fullWidth : {"undefined", "true"}, icon : {"undefined", "icon"},
     iconPosition : {"undefined", "right"},
     isLoading : {"undefined", "true", "false"},
     disabled : {"undefined", "true", "false"}]

\* The default value of a destructured prop.
Default(value, default) == IF value = "undefined" THEN default ELSE value

Truthy(value) == value \notin {"undefined", "false", ""}

\* a || b
Or(a, b) == IF Truthy(a) THEN a ELSE b

\* [..].filter(Boolean)
FilterBoolean(seq) == SelectSeq(seq, Truthy)

\* Mutant: the disabled attribute is the disabled prop alone.
ButtonIgnoresLoading(props) ==
    LET variant == Default(props.variant, "primary")
        size == Default(props.size, "medium")
        fullWidth == Default(props.fullWidth, "false")
        iconPosition == Default(props.iconPosition, "left")
        isLoading == Default(props.isLoading, "false")
        showIcon(position) ==
            Truthy(props.icon) /\ iconPosition = position /\ ~Truthy(isLoading)
    IN [classes |-> FilterBoolean(<<"btn", variant, size,
                        IF Truthy(fullWidth) THEN "btn-full-width" ELSE "",
                        IF Truthy(props.icon) THEN "btn-with-icon" ELSE "",
                        IF Truthy(isLoading) THEN "btn-loading" ELSE "">>),
        disabled |-> Truthy(props.disabled),
        onClick |-> "handleClick",
        children |-> (IF Truthy(isLoading) THEN <<"btn-spinner">> ELSE <<>>)
                     \o (IF showIcon("left") THEN <<"btn-icon-left">> ELSE <<>>)
                     \o <<"btn-text">>
                     \o (IF showIcon("right") THEN <<"btn-icon-right">> ELSE <<>>)]

\* The <button> element the component returns; the class names btn-<variant>
\* and btn-<size> are written <variant> and <size>.
Button(props) ==
    LET variant == Default(props.variant, "primary")
        size == Default(props.size, "medium")
        fullWidth == Default(props.fullWidth, "false")
        iconPosition == Default(props.iconPosition, "left")
        isLoading == Default(props.isLoading, "false")
        showIcon(position) ==
            Truthy(props.icon) /\ iconPosition = position /\ ~Truthy(isLoading)
    IN [classes |-> FilterBoolean(<<"btn", variant, size,
                        IF Truthy(fullWidth) THEN "btn-full-width" ELSE "",
                        IF Truthy(props.icon) THEN "btn-with-icon" ELSE "",
                        IF Truthy(isLoading) THEN "btn-loading" ELSE "">>),
        disabled |-> Truthy(Or(props.disabled, isLoading)),
        onClick |-> "handleClick",
        children |-> (IF Truthy(isLoading) THEN <<"btn-spinner">> ELSE <<>>)
                     \o (IF showIcon("left") THEN <<"btn-icon-left">> ELSE <<>>)
                     \o <<"btn-text">>
                     \o (IF showIcon("right") THEN <<"btn-icon-right">> ELSE <<>>)]

InitButton ==
    /\ DormantRun
    /\ invocation = IdleInvocation
    /\ repo = IdleRepo
    /\ runs = IdleRuns
    /\ button \in [pc : {"unmounted"}, props : ButtonProps, clicks : {0},
                   handleClick : {0}]

OutsideButton == <<RunVars, environment, invocation, repo, runs>>

\* render(<Button {...props} onClick={handleClick}>...</Button>)
Render ==
    /\ button.pc = "unmounted"
    /\ button' = [pc |-> "mounted", props |-> button.props,
                  element |-> Button(button.props), clicks |-> 0,
                  handleClick |-> 0]
    /\ UNCHANGED OutsideButton

\* fireEvent.click(button): a disabled <button> gets no click event, any
\* other calls its onClick once.
Click ==
    /\ button.pc = "mounted"
    /\ button.clicks < MaxClicks
    /\ button' = [button EXCEPT
                    !.clicks = @ + 1,
                    !.handleClick = IF button.element.disabled THEN @ ELSE @ + 1]
    /\ UNCHANGED OutsideButton

NextButton ==
    \/ Render
    \/ Click

SpecButton == InitButton /\ [][NextButton]_vars

----------------------------------------------------------------------------
(* Orchestrators sharing a workspace: each run of run-pipeline.sh resets   *)
(* .ai-pipeline-results.json (line 99) and, at the end of its iteration,   *)
(* rewrites it through .ai-pipeline-results.json.tmp (lines 247-248).      *)
(* Under set -e a run records at most one iteration.  Any run can be       *)
(* killed between two of its steps.                                        *)

Orchestrators == {1, 2}

\* The content of a file: a JSON document holding a list of iterations, each
\* tagged with the run that recorded it (0: an earlier run); zero bytes;
\* bytes of two writers mixed; or NoFile.
Json(iterations) == [iterations |-> iterations]
ZeroBytes == [zero_bytes |-> TRUE]
Mixed == [mixed |-> TRUE]

IsJson(content) == "iterations" \in DOMAIN content

IterationOf(run) == [run |-> run]

\* jq ".iterations += [$iteration_results]" FILE: what jq prints and its
\* exit status; a missing file and mixed bytes are errors, zero bytes are an
\* empty stream of JSON values.
JqAppend(content, iteration) ==
    IF IsJson(content)
    THEN [output |-> Json(Append(content.iterations, iteration)), status |-> 0]
    ELSE IF content = ZeroBytes
    THEN [output |-> ZeroBytes, status |-> 0]
    ELSE [output |-> ZeroBytes, status |-> JqParseError]

InitRuns ==
    /\ DormantRun
    /\ invocation = IdleInvocation
    /\ repo = IdleRepo
    /\ button = IdleButton
    /\ \E results \in {NoFile, Json(<<IterationOf(0)>>)},
          second \in {"none", "start"} :
          runs = [pc |-> [p \in Orchestrators |-> IF p = 1 THEN "start" ELSE second],
                  exit_status |-> [p \in Orchestrators |-> NoExit],
                  initialised |-> [p \in Orchestrators |-> FALSE],
                  recorded |-> [p \in Orchestrators |-> FALSE],
                  results_file |-> results,
                  tmp |-> NoFile]

OutsideRuns == <<RunVars, environment, invocation, repo, button>>

\* Line 99: echo "{\"iterations\": []}" > "$PIPELINE_RESULTS_FILE"
Initialise(p) ==
    /\ runs.pc[p] = "start"
    /\ runs' = [runs EXCEPT !.pc[p] = "iterating", !.initialised[p] = TRUE,
                            !.results_file = Json(<<>>)]
    /\ UNCHANGED OutsideRuns

\* Lines 140-145 under set -e: a step script exits nonzero and the run ends.
StepFails(p) ==
    /\ runs.pc[p] = "iterating"
    /\ runs' = [runs EXCEPT !.pc[p] = "exited", !.exit_status[p] = 1]
    /\ UNCHANGED OutsideRuns

\* Mutant: line 247 redirects jq into the results file itself.
OpenResultsFile(p) ==
    /\ runs.pc[p] = "iterating"
    /\ runs' = [runs EXCEPT !.pc[p] = "opened", !.results_file = ZeroBytes]
    /\ UNCHANGED OutsideRuns

\* Line 247, the redirection: the shell creates or truncates the .tmp file.
OpenTmp(p) ==
    /\ runs.pc[p] = "iterating"
    /\ runs' = [runs EXCEPT !.pc[p] = "opened", !.tmp = ZeroBytes]
    /\ UNCHANGED OutsideRuns

\* Line 247, jq: it reads the results file and writes the .tmp file through
\* the descriptor the shell opened.  If the other run has written the file
\* in the meantime the bytes of the two may mix.  A failure of jq ends the run.
WriteTmp(p) ==
    /\ runs.pc[p] = "opened"
    /\ LET jq == JqAppend(runs.results_file, IterationOf(p))
       IN IF jq.status /= 0
          THEN runs' = [runs EXCEPT !.pc[p] = "exited",
                                    !.exit_status[p] = jq.status]
          ELSE \E written \in {jq.output}
                              \cup (IF runs.tmp \in {ZeroBytes, NoFile}
                                    THEN {} ELSE {Mixed}) :
                  runs' = [runs EXCEPT !.pc[p] = "written", !.tmp = written]
    /\ UNCHANGED OutsideRuns

\* Mutant: the mv of line 248 is missing.
RenameMissing(p) ==
    /\ runs.pc[p] = "written"
    /\ runs' = [runs EXCEPT !.pc[p] = "recorded", !.recorded[p] = TRUE]
    /\ UNCHANGED OutsideRuns

\* Line 248: mv .tmp over the results file; then run_iteration returns 0.
\* mv fails when the other run has already moved the file away, which ends
\* the run.
Rename(p) ==
    /\ runs.pc[p] = "written"
    /\ IF runs.tmp = NoFile
       THEN runs' = [runs EXCEPT !.pc[p] = "exited", !.exit_status[p] = 1]
       ELSE runs' = [runs EXCEPT !.pc[p] = "recorded", !.recorded[p] = TRUE,
                                 !.results_file = runs.tmp, !.tmp = NoFile]
    /\ UNCHANGED OutsideRuns

\* Lines 289-309: the stop/continue decision ends the run, with status 0
\* (completion) or with the status check_stopping_conditions returned.
Finish(p) ==
    /\ runs.pc[p] = "recorded"
    /\ \E status \in {0, 1} :
          runs' = [runs EXCEPT !.pc[p] = "exited", !.exit_status[p] = status]
    /\ UNCHANGED OutsideRuns

\* The process is killed.
Kill(p) ==
    /\ runs.pc[p] \in {"start", "iterating", "opened", "written", "recorded"}
    /\ runs' = [runs EXCEPT !.pc[p] = "killed"]
    /\ UNCHANGED OutsideRuns

NextRuns ==
    \E p \in Orchestrators :
        \/ Initialise(p)
        \/ StepFails(p)
        \/ OpenTmp(p)
        \/ WriteTmp(p)
        \/ Rename(p)
        \/ Finish(p)
        \/ Kill(p)

SpecRuns == InitRuns /\ [][NextRuns]_vars

----------------------------------------------------------------------------
(* Vocabulary of the properties *)

IsRequired(step_id) == config.steps[step_id].required

Last(seq) == seq[Len(seq)]

IsPrefix(a, b) == Len(a) <= Len(b) /\ \A i \in DOMAIN a : a[i] = b[i]

\* The run_step calls of iteration k, in the order they were made.
CallsOf(k) == { i \in DOMAIN log : log[i].iteration = k }

\* A required step whose script ran and exited nonzero.
RequiredStepFailed(i) ==
    IsRequired(log[i].step_id) /\ log[i].ran /\ log[i].exit_code /= 0

\* An optional step whose script ran and exited nonzero.
OptionalStepFailed(i) ==
    ~IsRequired(log[i].step_id) /\ log[i].ran /\ log[i].exit_code /= 0

\* The run record holds the result of call i: its step id and exit code, in
\* the record of its iteration.
Persisted(i) ==
    \E k \in DOMAIN results_file :
        /\ results_file[k].iteration = log[i].iteration
        /\ \E j \in DOMAIN results_file[k].steps :
              /\ results_file[k].steps[j].step_id = log[i].step_id
              /\ results_file[k].steps[j].exit_code = log[i].exit_code
              /\ results_file[k].steps[j].timestamp = "this_run"

----------------------------------------------------------------------------
(* C1 *)

\* C1: if a required step returns a nonzero exit status, then when the run
\* has ended the last iteration of the run record has status "failed" and
\* failed_step names that step (so no later iteration is recorded).
C1_RequiredFailureRecorded ==
    pc = "exited" =>
        \A i \in DOMAIN log :
            RequiredStepFailed(i) =>
                /\ results_file /= <<>>
                /\ Last(results_file).status = "failed"
                /\ Last(results_file).failed_step = log[i].step_id

----------------------------------------------------------------------------
(* C2 *)

\* C2: a nonzero exit status of an optional step does not abort the run: when
\* the run has ended, it ended with status 0, the iteration is recorded with
\* status "success" and the step's result is in that iteration's record.
C2_OptionalFailureNotFatal ==
    pc = "exited" =>
        \A i \in DOMAIN log :
            OptionalStepFailed(i) =>
                /\ exit_status = 0
                /\ Persisted(i)
                /\ \E k \in DOMAIN results_file :
                      /\ results_file[k].iteration = log[i].iteration
                      /\ results_file[k].status = "success"

----------------------------------------------------------------------------
(* C3 *)

----------------------------------------------------------------------------
(* C4 *)

\* C4: in every iteration the required steps are run in configuration order,
\* and every required step has been run before any optional step is.
C4_RequiredFirstInOrder ==
    \A i \in DOMAIN log :
        IF IsRequired(log[i].step_id)
        THEN \A j \in 1..(i - 1) :
                (log[j].iteration = log[i].iteration) =>
                    /\ IsRequired(log[j].step_id)
                    /\ log[j].step_id < log[i].step_id
        ELSE \A s \in StepIds(config) :
                IsRequired(s) =>
                    \E j \in 1..(i - 1) :
                        /\ log[j].iteration = log[i].iteration
                        /\ log[j].step_id = s

\* C4 witness: an optional step was run after two required steps.
C4_Witness ==
    \E i \in DOMAIN log :
        /\ ~IsRequired(log[i].step_id)
        /\ Cardinality({ j \in 1..(i - 1) : IsRequired(log[j].step_id) }) >= 2

----------------------------------------------------------------------------
(* C5 *)

\* C5: the run record is append-only within a run: once the run has reset
\* the record at startup, every step of the run leaves the recorded
\* iterations as they are, in place, and at most adds iterations behind them.
C5_AppendOnly ==
    [][pc /= "startup" => IsPrefix(results_file, results_file')]_vars

\* C5 witness: the run has ended and the iteration it recorded is in the
\* record, with the results of its steps.
C5_Witness ==
    /\ pc = "exited"
    /\ Len(results_file) = 1
    /\ Len(results_file[1].steps) >= 2

----------------------------------------------------------------------------
(* C6 *)

\* C6: when every step of the iteration exited 0 (no step result carries
\* warnings), the run stops after that iteration whatever max-iterations is:
\* it completes with status 0 after iteration 0 and the run record holds
\* exactly one iteration.
C6_CleanIterationStops ==
    (/\ pc = "exited"
     /\ ~StartupFails
     /\ MAX_ITERATIONS >= 1
     /\ \A i \in DOMAIN log : log[i].ran /\ log[i].exit_code = 0) =>
        /\ exit_status = 0
        /\ CURRENT_ITERATION = 0
        /\ Len(results_file) = 1
        /\ \A i \in DOMAIN log : log[i].iteration = 0

\* C6 witness: a run with the default of 5 iterations whose steps all exited
\* 0 has ended with one iteration in the record.
C6_Witness ==
    /\ pc = "exited"
    /\ MAX_ITERATIONS = DefaultMaxIterations
    /\ Len(log) >= 2
    /\ \A i \in DOMAIN log : log[i].ran /\ log[i].exit_code = 0
    /\ Len(results_file) = 1

----------------------------------------------------------------------------
(* C7 *)

\* C7: if the script of a required step does not exist when the step is due,
\* the run ends with a nonzero status and the only iteration of the run record
\* has status "failed" and failed_step equal to that step.
C7_MissingRequiredScriptRecorded ==
    pc = "exited" =>
        \A i \in DOMAIN log :
            (IsRequired(log[i].step_id) /\ ~log[i].ran) =>
                /\ exit_status /= 0
                /\ Len(results_file) = 1
                /\ results_file[1].status = "failed"
                /\ results_file[1].failed_step = log[i].step_id

----------------------------------------------------------------------------
(* C8 *)

\* C8: at every stop, continue or abort decision, the run record holds the
\* result (step id and exit code) of every step executed so far.
C8_ResultsPersistedBeforeDecision ==
    pc \in {"check", "complete", "exited"} =>
        \A i \in DOMAIN log : log[i].ran => Persisted(i)

----------------------------------------------------------------------------
(* C9 *)

\* The run completed: status 0, the stopping condition held or the iterations
\* were used up.
Completed ==
    /\ exit_status = 0
    /\ \/ CURRENT_ITERATION >= MAX_ITERATIONS
       \/ /\ CURRENT_ITERATION + 1 \in DOMAIN results_file
          /\ results_file[CURRENT_ITERATION + 1].status = "success"

\* The run aborted: nonzero status, because a required step failed.
Aborted ==
    /\ exit_status /= 0
    /\ \E i \in DOMAIN log :
          /\ IsRequired(log[i].step_id)
          /\ log[i].result \in {"failed", "errexit"}

\* C9: a run that got past startup and has ended is Completed or Aborted, and
\* it started at most max-iterations iterations.
C9_EndsCompletedOrAborted ==
    (pc = "exited" /\ ~StartupFails) =>
        /\ Completed \/ Aborted
        /\ \A i \in DOMAIN log : log[i].iteration < MAX_ITERATIONS

----------------------------------------------------------------------------
(* C10 *)

\* C10: a step that took longer than its timeout_seconds is never treated as
\* passed.
C10_OverrunIsFailure ==
    \A i \in DOMAIN log :
        (log[i].ran /\ log[i].elapsed > config.steps[log[i].step_id].timeout_seconds)
            => log[i].result /= "passed"

----------------------------------------------------------------------------
(* C12 *)

ThisRunIterations(iterations) ==
    { i \in DOMAIN iterations : iterations[i].timestamp = "this_run" }

----------------------------------------------------------------------------
(* C11 *)

Called == invocation.pc = "done"

\* C11: when the target branch does not exist, the step script that was
\* called, whichever of the six it is and whatever the iteration number,
\* reports zero changed files and exits with status 0.
C11_MissingBranchTrivialPass ==
    (Called /\ ~invocation.branch_exists) =>
        /\ invocation.outcome.exit_code = 0
        /\ invocation.outcome.reported = 0

\* C11 witness: the syntax check was called in a later iteration for a branch
\* that does not exist, and exited 0.
C11_Witness ==
    /\ Called
    /\ ~invocation.branch_exists
    /\ invocation.script = "syntax_check"
    /\ invocation.iteration >= 1
    /\ invocation.outcome.exit_code = 0

----------------------------------------------------------------------------
(* C16 *)

\* C16: every file a step invocation writes lies in its own output directory,
\* iteration-<n>/step-<its name>; it writes nothing else (not the branch, not
\* a file of another step, not the run record).
C16_WritesOnlyOwnDirectory ==
    Called =>
        \A p \in invocation.outcome.written :
            /\ p.iteration = invocation.iteration
            /\ p.step = invocation.script

\* C16 witness: the human review, which reads the summaries of the other
\* steps, has run on an existing branch and written its four files.
C16_Witness ==
    /\ Called
    /\ invocation.script = "human_review"
    /\ invocation.branch_exists
    /\ Cardinality(invocation.outcome.written) = 4

----------------------------------------------------------------------------
(* C17 *)

ResultArtifacts ==
    {"validation_result.json", "ai_understanding.json", "syntax_results.json",
     "style_results.json", "test_results.json", "api_changes.json",
     "db_changes.json", "security_results.json", "review_result.json"}

SummaryArtifacts == {"summary.txt"}

Wrote(files) == \E p \in invocation.outcome.written : p.file \in files

TrivialPass == ~invocation.branch_exists \/ invocation.changed = 0

\* C17 as stated: on every path to its exit, the trivial pass included, a step
\* script leaves a result artifact and a summary artifact.
C17_EveryExitLeavesArtifacts ==
    Called => (Wrote(ResultArtifacts) /\ Wrote(SummaryArtifacts))

\* C17: the context validation and the human review leave a result artifact
\* and a summary artifact on every path; the syntax check, the code style
\* check, the breaking changes check and the security scan leave both when
\* the branch exists and has changed files, and on their trivial pass leave
\* changed_files.txt and nothing else.
C17_ArtifactsUnlessTrivialPass ==
    Called =>
        IF invocation.script \in {"context_validation", "human_review"}
           \/ ~TrivialPass
        THEN Wrote(ResultArtifacts) /\ Wrote(SummaryArtifacts)
        ELSE invocation.outcome.written =
                In(invocation.iteration, invocation.script, {"changed_files.txt"})

\* C17 witness: the code style check ran on a branch with changed files and
\* left style_results.json and summary.txt.
C17_Witness ==
    /\ Called
    /\ invocation.script = "code_style"
    /\ ~TrivialPass
    /\ Wrote({"style_results.json"})
    /\ Wrote({"summary.txt"})

----------------------------------------------------------------------------
(* C13 *)

\* Call i of run_step was for an optional step whose script file is missing.
OptionalScriptMissing(i) ==
    ~log[i].ran /\ ~IsRequired(log[i].step_id)

\* C13: an optional step whose script file does not exist is skipped: the
\* script is not run, the iteration record gets no step result for that
\* step, and the run does not end at that call: the steps after it run and
\* the iteration is recorded as a success.
C13_MissingOptionalScriptSkipped ==
    \A i \in DOMAIN log :
        OptionalScriptMissing(i) =>
            /\ log[i].result = "skipped"
            /\ \A j \in DOMAIN iteration_results.steps :
                    iteration_results.steps[j].step_id /= log[i].step_id
            /\ (i = Len(log) /\ pc = "exited") =>
                    /\ results_file /= <<>>
                    /\ Last(results_file).status = "success"

----------------------------------------------------------------------------
(* C14 *)

\* This step is an invocation of branch-automation.sh with second argument arg.
Invoked(arg) == repo'.last.arg = arg

\* C14: an invocation for promote-to-review when ai-gen/<feature> does not
\* exist, or for promote-to-prod when ai-review/<feature> does not exist,
\* exits with a nonzero status and leaves every local and every remote branch
\* as it was: none is created, none is pushed.
C14_MissingSourceBranchFails ==
    [][(\/ Invoked("promote-to-review") /\ ~branch_exists(repo, "gen")
        \/ Invoked("promote-to-prod") /\ ~branch_exists(repo, "review"))
       => /\ repo'.last.exit_status /= 0
          /\ repo'.local = repo.local
          /\ repo'.remote = repo.remote]_vars

----------------------------------------------------------------------------
(* C15 *)

\* The stage branch `to`, in the local or the remote repository, is changed
\* by this step only as a promotion of the local branch `from`: `from` exists,
\* and the new `to` holds all of `from` and nothing but the old `to`, `from`
\* and the merge commit.
PromotedFrom(to, from) ==
    /\ (repo'.local[to] /= repo.local[to]) =>
            /\ branch_exists(repo, from)
            /\ repo.local[from] \subseteq repo'.local[to]
            /\ repo'.local[to] \subseteq
                    repo.local[to] \cup repo.local[from] \cup {repo.next}
    /\ (repo'.remote[to] /= repo.remote[to]) =>
            /\ branch_exists(repo, from)
            /\ repo'.remote[to] = repo'.local[to]
            /\ repo.local[from] \subseteq repo'.remote[to]

\* C15: in every invocation of branch-automation.sh, ai-review/<feature> is
\* created or updated only from ai-gen/<feature>, and ai-prod/<feature> only
\* when ai-review/<feature> exists and only from it: no commit reaches
\* ai-prod except through ai-review.
C15_StagesNeverSkipped ==
    [][(Invoked("") \/ Invoked("promote-to-review") \/ Invoked("promote-to-prod"))
       => /\ PromotedFrom("review", "gen")
          /\ PromotedFrom("prod", "review")]_vars

\* C15 witness: promote-to-prod has just pushed an ai-prod branch that equals
\* ai-review while ai-gen is ahead of ai-review.
C15_Witness ==
    /\ repo.pc = "shell"
    /\ repo.last.arg = "promote-to-prod"
    /\ repo.last.exit_status = 0
    /\ branch_exists(repo, "prod")
    /\ repo.remote["prod"] = repo.local["review"]
    /\ repo.local["gen"] \ repo.local["review"] /= {}

----------------------------------------------------------------------------
(* C20 *)

Mounted == button.pc = "mounted"

DisabledOrLoading ==
    button.props.disabled = "true" \/ button.props.isLoading = "true"

\* C20: the Button renders a disabled <button> exactly when its disabled prop
\* or its isLoading prop is true; while it is disabled or loading no click
\* calls onClick; when neither is set every click calls onClick exactly once.
C20_DisabledOrLoadingBlocksClick ==
    Mounted =>
        /\ button.element.disabled <=> DisabledOrLoading
        /\ DisabledOrLoading => button.handleClick = 0
        /\ ~DisabledOrLoading => button.handleClick = button.clicks

\* C20 witness: a Button that is loading and not disabled has been clicked
\* and its handler was not called.
C20_Witness ==
    /\ Mounted
    /\ button.props.isLoading = "true"
    /\ button.props.disabled = "false"
    /\ button.clicks >= 1
    /\ button.handleClick = 0

----------------------------------------------------------------------------
(* C18 *)

Other(p) == CHOOSE q \in Orchestrators : q /= p

\* Run p was killed and is the only run in the workspace.
KilledAlone(p) == runs.pc[p] = "killed" /\ runs.pc[Other(p)] = "none"

\* The results file is a well-formed record holding exactly the iterations
\* run p completed.
ExactRecordOf(p) ==
    /\ IsJson(runs.results_file)
    /\ runs.results_file.iterations =
            IF runs.recorded[p] THEN <<IterationOf(p)>> ELSE <<>>

\* C18 as stated: wherever a run is killed, the results file is a well-formed
\* record that holds exactly the iterations the run completed.
C18_KilledAnywhereExactRecord ==
    \A p \in Orchestrators : KilledAlone(p) => ExactRecordOf(p)

\* C18: when a run is killed after it has reset the results file (line 99),
\* the results file is a well-formed record that holds exactly the iterations
\* the run completed, never a partly written one.
C18_KilledAfterResetExactRecord ==
    \A p \in Orchestrators :
        (KilledAlone(p) /\ runs.initialised[p]) => ExactRecordOf(p)

\* C18 witness: a run was killed after jq had written the .tmp file and
\* before the mv: the results file holds no iteration.
C18_Witness ==
    /\ KilledAlone(1)
    /\ runs.initialised[1]
    /\ IsJson(runs.tmp)
    /\ runs.results_file = Json(<<>>)

----------------------------------------------------------------------------
(* C19 *)

\* Run p completed its iteration and the results file does not hold it.
Lost(p) ==
    /\ runs.recorded[p]
    /\ ~(/\ IsJson(runs.results_file)
         /\ IterationOf(p) \in Range(runs.results_file.iterations))

\* C19: two runs in one workspace can lose an iteration (the witness), and
\* only they can: the iteration a run completed is missing from the results
\* file only when another run has reset or rewritten the file.
C19_LostOnlyToAnotherRun ==
    \A p \in Orchestrators : Lost(p) => runs.initialised[Other(p)]

\* C19 witness: both runs completed their iteration and ended with status 0,
\* and the results file holds the iteration of run 2 only.
C19_Witness ==
    /\ \A p \in Orchestrators :
            /\ runs.pc[p] = "exited"
            /\ runs.exit_status[p] = 0
            /\ runs.recorded[p]
    /\ runs.results_file = Json(<<IterationOf(2)>>)

----------------------------------------------------------------------------
(* C21 *)

\* The step results recorded in the results file.
RecordedStepResults ==
    UNION { Range(results_file[k].steps) : k \in DOMAIN results_file }

\* C21: whatever the configuration, max-iterations and the outcomes of the
\* steps, once the run has reset the results file it appends at most one
\* iteration record: no recorded step result has a warnings field, the loop
\* counter stays at 0 and no step of iteration 1 is ever called.
C21_AtMostOneIteration ==
    pc /= "startup" =>
        /\ Len(results_file) <= 1
        /\ \A r \in RecordedStepResults : "warnings" \notin DOMAIN r
        /\ CURRENT_ITERATION = 0
        /\ \A i \in DOMAIN log : log[i].iteration = 0

\* C21 witness: a run allowed 5 iterations ended with status 0 after one
\* iteration in which a step ran and the script of another was missing.
C21_Witness ==
    /\ pc = "exited"
    /\ exit_status = 0
    /\ MAX_ITERATIONS = DefaultMaxIterations
    /\ \E i, j \in DOMAIN log : log[i].ran /\ ~log[j].ran
    /\ Len(results_file) = 1

----------------------------------------------------------------------------
(* C22 *)

\* The configuration the orchestrator is meant for:
\* 0 < min_steps <= max_steps <= number of steps.
IntendedConfig ==
    /\ config.min_steps >= 1
    /\ config.min_steps <= config.max_steps
    /\ config.max_steps <= Len(config.steps)

\* C22: in every iteration record of the results file, steps_run equals the
\* number of step results in the record's steps list (here: for an intended
\* configuration, in a run where every script that was due existed).
C22_StepsRunCountsSteps ==
    (/\ IntendedConfig
     /\ \A i \in DOMAIN log : log[i].ran) =>
        \A k \in DOMAIN results_file :
            results_file[k].steps_run = Len(results_file[k].steps)

----------------------------------------------------------------------------
(* C23 *)

\* The iteration records there are: those of the results file and the one
\* run_iteration is building.
IterationRecords ==
    Range(results_file)
        \cup (IF iteration_results = NoIteration THEN {} ELSE {iteration_results})

\* The record reports the step as the cause of the iteration's failure.
ReportedAsCause(record, step_id) ==
    record.status = "failed" /\ record.failed_step = step_id

----------------------------------------------------------------------------
(* C24 *)

\* The step is an invocation of ai-iterative-branch.sh with `iterate n`,
\* n >= 1, or with `finalize`, in a repository that has the iteration-0
\* branch.
IteratesOrFinalizes ==
    /\ \/ repo'.last.arg = "iterate" /\ repo'.last.n >= 1
       \/ repo'.last.arg = "finalize"
    /\ branch_exists(repo, IterationBranch(0))

\* C24: an invocation with `iterate n` (n >= 1) or `finalize` leaves the
\* existing iteration-0 branch as it is, locally and on the remote: it is
\* neither deleted nor created again from main.
C24_IterationZeroUntouched ==
    [][IteratesOrFinalizes =>
          /\ repo'.local[IterationBranch(0)] = repo.local[IterationBranch(0)]
          /\ repo'.remote[IterationBranch(0)] = repo.remote[IterationBranch(0)]]_vars

----------------------------------------------------------------------------
(* C25 *)

ScanCalled == Called /\ invocation.script = "security_scan"

\* C25: whatever the iteration number and the random choices, the security
\* scan exits with status 0: at an iteration greater than 0 it counts no
\* finding of severity "critical", which is the only thing it fails on.
C25_SecurityScanExitsZero ==
    ScanCalled =>
        /\ invocation.outcome.exit_code = 0
        /\ invocation.iteration > 0 => invocation.outcome.detail = 0

\* C25 witness: at a middle iteration the scan went through a branch with
\* changed files, drew its findings and exited with status 0.
C25_Witness ==
    /\ ScanCalled
    /\ invocation.iteration \in {1, 2}
    /\ invocation.branch_exists
    /\ invocation.outcome.reported > 0
    /\ invocation.outcome.exit_code = 0

----------------------------------------------------------------------------
(* C26 *)

\* Line 299: "Pipeline completed successfully after $((CURRENT_ITERATION + 1))
\* iterations".
ReportedIterations == CURRENT_ITERATION + 1

\* C26: whenever the run ends with status 0, the iteration count of its
\* completion message equals the number of iteration records in the
\* results file, for every max-iterations >= 0.
C26_ReportedCountIsRecordCount ==
    (pc = "exited" /\ exit_status = 0) =>
        ReportedIterations = Len(results_file)

----------------------------------------------------------------------------
(* C27 *)

\* The step ids of the sequence of step results are pairwise distinct.
DistinctStepIds(steps) ==
    \A i, j \in DOMAIN steps : i /= j => steps[i].step_id /= steps[j].step_id

\* C27: with unique step ids in the configuration, no step is called more
\* than once within one iteration, and the step ids in the steps list of
\* every iteration record are pairwise distinct.
C27_NoStepTwicePerIteration ==
    /\ \A i, j \in DOMAIN log :
          (i /= j /\ log[i].iteration = log[j].iteration) =>
              log[i].step_id /= log[j].step_id
    /\ \A record \in IterationRecords : DistinctStepIds(record.steps)

\* C27 witness: the results file holds an iteration with the results of a
\* required step and of two optional steps.
C27_Witness ==
    \E k \in DOMAIN results_file :
        /\ Len(results_file[k].steps) = 3
        /\ Cardinality({ j \in DOMAIN results_file[k].steps :
                            ~IsRequired(results_file[k].steps[j].step_id) }) = 2

----------------------------------------------------------------------------
(* C28 *)

\* C28: every commit a script attempts once setup-repo.sh has installed the
\* hooks is accepted by the commit-msg hook, so the script goes on and ends
\* with status 0.
C28_ScriptCommitsAccepted ==
    /\ \A i \in DOMAIN repo.attempts :
          repo.attempts[i].hooked => repo.attempts[i].accepted
    /\ (repo.hooks_installed /\ repo.last.script /= "none") =>
          repo.last.exit_status = 0

----------------------------------------------------------------------------
(* C29 *)

\* The step is a promotion to the branch `to`, which exists, and the answer
\* at the force-update prompt is not y.
DeclinedPromotion(arg, to) ==
    /\ Invoked(arg)
    /\ branch_exists(repo, to)
    /\ repo'.last.FORCE_UPDATE /= "y"

DestinationUnchanged(to) ==
    /\ repo'.local[to] = repo.local[to]
    /\ repo'.remote[to] = repo.remote[to]

\* C29: when the destination branch of a promotion exists and the answer to
\* the force-update prompt is anything but y, the script ends with a nonzero
\* status and the destination branch is as it was, locally and on the
\* remote.
C29_DeclinedPromotionChangesNothing ==
    [][/\ DeclinedPromotion("promote-to-review", "review") =>
             (repo'.last.exit_status /= 0 /\ DestinationUnchanged("review"))
       /\ DeclinedPromotion("promote-to-prod", "prod") =>
             (repo'.last.exit_status /= 0 /\ DestinationUnchanged("prod"))]_vars

\* C29 witness: a promotion to review was declined and ended with status 1
\* on the ai-gen branch, which has commits that the review branch, pushed
\* before, has not.
C29_Witness ==
    /\ repo.pc = "shell"
    /\ repo.last = [arg |-> "promote-to-review", exit_status |-> 1,
                    FORCE_UPDATE |-> "n"]
    /\ repo.current = "gen"
    /\ branch_exists(repo, "review")
    /\ repo.remote["review"] = repo.local["review"]
    /\ ~(repo.local["gen"] \subseteq repo.local["review"])

----------------------------------------------------------------------------
(* C30 *)

\* C30: in the results file the iteration numbers start at 0 and increase
\* by one, the entry at 0-based position i has iteration number i; and at
\* the stopping check after iteration k the entry at position k, the one the
\* check reads, is the record of the iteration that just completed.
C30_IterationNumberIsPosition ==
    /\ \A k \in DOMAIN results_file : results_file[k].iteration = k - 1
    /\ pc = "check" =>
          /\ CURRENT_ITERATION + 1 \in DOMAIN results_file
          /\ results_file[CURRENT_ITERATION + 1] = iteration_results
          /\ iteration_results.iteration = CURRENT_ITERATION

\* C30 witness: the stopping check is due after an iteration that called two
\* steps, and the results file holds the record of that iteration, numbered
\* 0, and nothing else.
C30_Witness ==
    /\ pc = "check"
    /\ Len(log) >= 2
    /\ Len(results_file) = 1
    /\ results_file[1].timestamp = "this_run"
    /\ results_file[1].iteration = 0

====
